---- MODULE Spec2Model ----
(***************************************************************************)
(* Request-lifecycle hooks of ayonli/react-hooks: useSubmit (pending/done  *)
(* variant), useSubmitter and useAsyncData.                                *)
(*                                                                         *)
(* One step of the model is one event of the single-threaded event loop    *)
(* (a call of submit/abort, a change of the props, the settlement of the   *)
(* operation's promise, the run of a promise callback, the unmount)        *)
(* together with the renders and effects React flushes for it.             *)
(*                                                                         *)
(* The operation fn is an input: it returns a promise, which resolves or   *)
(* rejects with any of a few values at any time; `observes` says whether   *)
(* it rejects with signal.reason as soon as its signal is aborted.         *)
(* submit is called with defined values only.  The component is followed   *)
(* until it unmounts.                                                      *)
(*                                                                         *)
(* useRevertibleState and useStorageState follow, each with variables and  *)
(* a specification of its own (SpecHistory, SpecStorage).                  *)
(***************************************************************************)
EXTENDS Integers, Sequences, FiniteSets, TLC

(* ---------- bounds ---------- *)
MaxReqs == 2
MaxDep == 2
MaxSets == 2

(* ---------- JavaScript values ---------- *)
Undef == [t |-> "undefined", v |-> ""]
Str(s) == [t |-> "string", v |-> s]
Err(m) == [t |-> "Error", v |-> m]

IsError(x) == x.t = "Error"

\* String(err) of JavaScript
String(x) == IF x.t = "undefined" THEN "undefined"
             ELSE IF x.t = "Error" THEN "Error: " \o x.v
             ELSE x.v

\* the reason an AbortSignal carries when abort() is given none (a DOMException)
AbortError == Err("The operation was aborted.")

Inputs == {Str("Alice"), Str("Bob")}
ResolveValues == {Undef, Str("ok")}
RejectValues == {Undef, Err("fail")}
Reasons == {Undef, Str("stop")}
DepValues == 1..MaxDep
Hooks == {"useSubmit", "useSubmitter", "useAsyncData"}

VARIABLES
    hook,           \* which hook the component uses
    shouldRequest,  \* useAsyncData: "none" or "ge2" (deps => deps >= 2)
    observes,       \* whether the operation rejects with signal.reason on abort
    phase,          \* "init" (constructed), "mounted", "unmounted", or "crashed":
                    \* removed by React because an exception left an effect
    deps,           \* the deps of the last render
    data,           \* useSubmit/useSubmitter: the `data` state
    state,          \* the `state` state of the hook
    reqs,           \* the operations started so far, with their controllers
    cleanup,        \* controller the last effect run returned a cleanup for, 0 if none
    call,           \* history: the arguments of the last invocation of fn
    last,           \* history: the kind of the last event
    rev,            \* useRevertibleState: [state, history, index] of the hook
    initial,        \* useRevertibleState: the `initial` argument of the last render
    original,       \* history: the `initial` argument of the first render
    op,             \* history: the last call made on the useRevertibleState hook,
                    \* with the cursor and the length of the history it found
    stores,         \* the items of localStorage and sessionStorage
    props,          \* useStorageState: key, storage and deepCompare of the last render
    storageState,   \* useStorageState: [state, id, prevKey, prevStorage] of the hook,
                    \* id standing for the identity of the state object
    stored,         \* history: the last event of the useStorageState component
    logged,         \* the text console.error was given in the last step, "" if none
    browser,        \* the session history: its entries and the index of the current one
    urlProps,       \* useUrlState: initials, deepCompare and noCoerce of the hook
    urlState,       \* useUrlState: [state, cache, id] of the hook, id standing for
                    \* the identity of the state object
    visited,        \* history: the last event of the useUrlState component
    router,         \* useRouter: the location of React Router (pathname, search,
                    \* hash, state, key)
    routed,         \* history: the last call made on the router
    debounced,      \* useDebouncedCallback: the debounced functions created so far,
                    \* each with its deps, last data, waiting calls and timer
    memo,           \* the debounced function the last render returned
    hookDeps,       \* useDebouncedCallback: the deps of the last render
    tasks,          \* history: the calls of the returned function, with their promises
    invocations,    \* history: the invocations of the callback
    now,            \* the clock
    prop,           \* usePropState: the prop of the last render
    propState,      \* usePropState: the state of the hook
    renders,        \* usePropState: the number of renders so far
    propOp          \* history: the last event of the usePropState component

requestVars == <<hook, shouldRequest, observes, phase, deps, data, state, reqs, cleanup, call, last>>
historyVars == <<rev, initial, original, op>>
storageVars == <<stores, props, storageState, stored, logged>>
urlVars == <<urlProps, urlState, visited>>
routerVars == <<router, routed>>
debounceVars == <<debounced, memo, hookDeps, tasks, invocations, now>>
propVars == <<prop, propState, renders, propOp>>
vars == <<requestVars, historyVars, storageVars, browser, urlVars, routerVars, debounceVars,
          propVars>>

\* what a step of one hook leaves alone
notRequest == <<historyVars, storageVars, browser, urlVars, routerVars, debounceVars, propVars>>
notHistory == <<requestVars, storageVars, browser, urlVars, routerVars, debounceVars, propVars>>
notStorage == <<requestVars, historyVars, browser, urlVars, routerVars, debounceVars, propVars>>
notUrl == <<requestVars, historyVars, storageVars, routerVars, debounceVars, propVars>>
notRouter == <<requestVars, historyVars, storageVars, urlVars, debounceVars, propVars>>
notDebounce == <<requestVars, historyVars, storageVars, browser, urlVars, routerVars, propVars>>
notProp == <<requestVars, historyVars, storageVars, browser, urlVars, routerVars, debounceVars>>

(* ---------- AbortController / operation ---------- *)

\* a started operation: its signal, its promise and the number of times its
\* callbacks have called setState
NewReq ==
    [aborted |-> FALSE, reason |-> Undef, promise |-> "pending", value |-> Undef,
     writes |-> 0]

\* a request whose promise callback has run takes no further part (its promise
\* is settled, aborting its controller reaches nobody): only `writes` is kept
Handled(w) ==
    [aborted |-> FALSE, reason |-> Undef, promise |-> "handled", value |-> Undef,
     writes |-> w]

\* fn(signal, input) called in a render with deps `fn`
Call(input, fn) == [input |-> input, fn |-> fn]

\* ctrl.abort(reason) of controller k; an operation that observes its signal
\* rejects its promise with signal.reason in the abort listener
CtrlAbort(rs, k, reason, obeys) ==
    IF rs[k].aborted \/ rs[k].promise = "handled" THEN rs
    ELSE LET r == IF reason = Undef THEN AbortError ELSE reason
         IN IF obeys /\ rs[k].promise = "pending"
            THEN [rs EXCEPT ![k].aborted = TRUE, ![k].reason = r,
                            ![k].promise = "rejected", ![k].value = r]
            ELSE [rs EXCEPT ![k].aborted = TRUE, ![k].reason = r]

\* faulty variant: the cleanup does not abort
RunCleanupNothing(rs, c, obeys) == rs

\* the cleanup `() => { ctrl.abort() }` of the last effect run, if it returned one
RunCleanup(rs, c, obeys) == IF c = 0 THEN rs ELSE CtrlAbort(rs, c, Undef, obeys)

(* ---------- useSubmit (pending/done variant) ---------- *)

SubmitInitialState ==
    [pending |-> FALSE, done |-> FALSE, result |-> Undef, error |-> Undef, abort |-> 0]

SubmitIdleState ==
    [pending |-> FALSE, done |-> FALSE, result |-> Undef, error |-> Undef, abort |-> 0]

\* faulty variant: the pending flag is not raised
SubmitPendingStateNotPending(k) ==
    [pending |-> FALSE, done |-> FALSE, result |-> Undef, error |-> Undef, abort |-> k]

SubmitPendingState(k) ==
    [pending |-> TRUE, done |-> FALSE, result |-> Undef, error |-> Undef, abort |-> k]

\* faulty variant: the pending flag is left raised
SubmitThenStateStillPending(result) ==
    [pending |-> TRUE, done |-> TRUE, result |-> result, error |-> Undef, abort |-> 0]

\* faulty variant: the result is dropped
SubmitThenStateNoResult(result) ==
    [pending |-> FALSE, done |-> TRUE, result |-> Undef, error |-> Undef, abort |-> 0]

SubmitThenState(result) ==
    [pending |-> FALSE, done |-> TRUE, result |-> result, error |-> Undef, abort |-> 0]

\* faulty variant: the failure is stored as the result too
SubmitCatchStateBoth(err) ==
    [pending |-> FALSE, done |-> TRUE, result |-> err, error |-> err, abort |-> 0]

SubmitCatchState(err) ==
    [pending |-> FALSE, done |-> TRUE, result |-> Undef, error |-> err, abort |-> 0]

\* faulty variant: a finished request does not block the next one
SubmitSkipsIgnoresDone(d, st) == d = Undef \/ st.pending

\* the early return of the [data] effect
SubmitSkips(d, st) == d = Undef \/ st.pending \/ st.done

\* the [data] effect of a render with data d and state st: the previous
\* cleanup runs first, then the body
SubmitDataEffect(w, fn, obeys) ==
    LET rs == RunCleanup(w.reqs, w.cleanup, obeys)
        k == Len(rs) + 1
    IN IF SubmitSkips(w.data, w.state)
       THEN [w EXCEPT !.reqs = rs, !.cleanup = 0]
       ELSE [data |-> w.data, state |-> SubmitPendingState(k),
             reqs |-> Append(rs, NewReq), cleanup |-> k, call |-> Call(w.data, fn)]

\* the deps effect, and the render its updates cause: the [data] effect runs
\* in that render when `data` changed
SubmitDepsEffect(w, fn, obeys) ==
    LET w1 == [w EXCEPT !.data = Undef, !.state = SubmitIdleState]
    IN IF w.data = Undef THEN w1 ELSE SubmitDataEffect(w1, fn, obeys)

(* ---------- useSubmitter ---------- *)

SubmitterInitialState ==
    [pending |-> FALSE, result |-> Undef, error |-> Undef, abort |-> 0]

SubmitterPendingState(k) ==
    [pending |-> TRUE, result |-> Undef, error |-> Undef, abort |-> k]

SubmitterThenState(st, result) ==
    [st EXCEPT !.pending = FALSE, !.result = result, !.error = Undef]

SubmitterCatchState(st, err) ==
    [st EXCEPT !.pending = FALSE, !.result = Undef, !.error = err]

SubmitterSkips(d, st) == d = Undef \/ st.pending

SubmitterDataEffect(w, fn, obeys) ==
    LET k == Len(w.reqs) + 1
    IN IF SubmitterSkips(w.data, w.state)
       THEN w
       ELSE [data |-> w.data, state |-> SubmitterPendingState(k),
             reqs |-> Append(w.reqs, NewReq), cleanup |-> 0, call |-> Call(w.data, fn)]

(* ---------- useAsyncData ---------- *)

AsyncInitialState ==
    [loading |-> FALSE, data |-> Undef, error |-> Undef, abort |-> 0]

\* faulty variant: the effect does not raise the loading flag
AsyncLoadingStateNotLoading(k) ==
    [loading |-> FALSE, data |-> Undef, error |-> Undef, abort |-> k]

AsyncLoadingState(k) ==
    [loading |-> TRUE, data |-> Undef, error |-> Undef, abort |-> k]

AsyncThenState(st, d) ==
    [st EXCEPT !.loading = FALSE, !.data = d, !.error = Undef]

\* faulty variant: every rejection value is wrapped
AsyncCatchErrorWrapsAll(err) == Err(String(err))

\* faulty variant: the rejection value is stored as it is
AsyncCatchErrorVerbatim(err) == err

\* the error the catch callback stores
AsyncCatchError(err) == IF IsError(err) THEN err ELSE Err(String(err))

AsyncCatchState(st, err) ==
    [st EXCEPT !.loading = FALSE, !.data = Undef, !.error = AsyncCatchError(err)]

\* the arguments of set: a value, or one of two updater functions
Updaters == {"next", "swap"}
SetArgs == {[fn |-> "none", v |-> Str("new")]} \cup [fn : Updaters, v : {Undef}]

\* data(state.data) for an updater function
Apply(f, d) ==
    IF f = "next" THEN (IF d = Undef THEN Str("ok") ELSE Str("new"))
    ELSE IF d = Str("ok") THEN Str("new")
    ELSE IF d = Str("new") THEN Str("ok")
    ELSE d

\* faulty variant: the update is computed from the state of the render
AsyncSetFromRender(rendered, st, arg) ==
    [rendered EXCEPT !.loading = FALSE,
                     !.data = IF arg.fn = "none" THEN arg.v ELSE Apply(arg.fn, rendered.data),
                     !.error = Undef]

\* the updater set(data) queues, applied to the state st it finds; rendered
\* is the state of the last render
AsyncSet(rendered, st, arg) ==
    [st EXCEPT !.loading = FALSE,
               !.data = IF arg.fn = "none" THEN arg.v ELSE Apply(arg.fn, st.data),
               !.error = Undef]

\* React applies the queued updaters in the order of the calls
RECURSIVE AsyncSetAll(_, _, _)
AsyncSetAll(rendered, st, args) ==
    IF args = <<>> THEN st
    ELSE AsyncSetAll(rendered, AsyncSet(rendered, st, Head(args)), Tail(args))

\* faulty variant: the predicate is not consulted
ShouldRequestIgnored(sr, d) == TRUE

\* shouldRequest(...deps): absent, or deps => deps >= 2
ShouldRequest(sr, d) == sr = "none" \/ d >= 2

\* the deps effect of a render with deps d
AsyncDepsEffect(w, sr, d, obeys) ==
    LET rs == RunCleanup(w.reqs, w.cleanup, obeys)
        k == Len(rs) + 1
    IN IF ~ShouldRequest(sr, d)
       THEN [w EXCEPT !.reqs = rs, !.cleanup = 0]
       ELSE [data |-> w.data, state |-> AsyncLoadingState(k),
             reqs |-> Append(rs, NewReq), cleanup |-> k, call |-> Call(Undef, d)]

(* ---------- the component ---------- *)

World == [data |-> data, state |-> state, reqs |-> reqs, cleanup |-> cleanup, call |-> call]

Become(w) ==
    /\ Len(w.reqs) <= MaxReqs
    /\ data' = w.data
    /\ state' = w.state
    /\ reqs' = w.reqs
    /\ cleanup' = w.cleanup
    /\ call' = w.call

InitialState(h) ==
    IF h = "useSubmit" THEN SubmitInitialState
    ELSE IF h = "useSubmitter" THEN SubmitterInitialState
    ELSE AsyncInitialState

\* the component uses no useRevertibleState hook
HistoryUnused ==
    /\ rev = [state |-> "", history |-> <<>>, index |-> 0]
    /\ initial = ""
    /\ original = ""
    /\ op = [name |-> "none", index |-> 0, len |-> 0]

\* the component uses no useStorageState hook
StorageUnused ==
    /\ stores = <<>>
    /\ props = [key |-> "", storage |-> "", deepCompare |-> FALSE]
    /\ storageState = [state |-> Undef, id |-> 0, prevKey |-> "", prevStorage |-> ""]
    /\ stored = "none"
    /\ logged = ""

\* the component uses no useRouter hook
RouterUnused ==
    /\ router = [pathname |-> "", search |-> Undef, hash |-> "", state |-> Undef, key |-> 0]
    /\ routed = [name |-> "none", kind |-> "", silent |-> FALSE]

\* the component does not use the session history
BrowserUnused == browser = [entries |-> <<>>, index |-> 0]

DebounceUnused ==
    /\ debounced = <<>>
    /\ memo = 0
    /\ hookDeps = ""
    /\ tasks = <<>>
    /\ invocations = <<>>
    /\ now = 0

PropUnused ==
    /\ prop = [v |-> "", id |-> 0]
    /\ propState = [v |-> "", id |-> 0]
    /\ renders = 0
    /\ propOp = [name |-> "none", arg |-> [v |-> "", id |-> 0]]

\* the component uses no useUrlState hook
UrlUnused ==
    /\ urlProps = [initials |-> Undef, deepCompare |-> FALSE, noCoerce |-> FALSE]
    /\ urlState = [state |-> Undef, cache |-> Undef, id |-> 0]
    /\ visited = "none"

Init ==
    /\ HistoryUnused
    /\ StorageUnused
    /\ BrowserUnused
    /\ UrlUnused
    /\ RouterUnused
    /\ DebounceUnused
    /\ PropUnused
    /\ hook \in Hooks
    /\ shouldRequest \in (IF hook = "useAsyncData" THEN {"none", "ge2"} ELSE {"none"})
    /\ phase = "init"
    /\ deps \in (IF hook = "useSubmitter" THEN {1} ELSE DepValues)
    /\ data = Undef
    /\ state = InitialState(hook)
    /\ reqs = <<>>
    /\ cleanup = 0
    /\ call = Call(Undef, 0)
    /\ observes \in BOOLEAN
    /\ last = "construct"

\* the first render and its effects; an effect reads the values of its render,
\* the updates it makes are applied by the next render
Mount ==
    /\ phase = "init"
    /\ phase' = "mounted"
    /\ Become(IF hook = "useSubmit"
               THEN SubmitDepsEffect(SubmitDataEffect(World, deps, observes), deps, observes)
               ELSE IF hook = "useSubmitter"
               THEN SubmitterDataEffect(World, deps, observes)
               ELSE AsyncDepsEffect(World, shouldRequest, deps, observes))
    /\ last' = "mount"
    /\ UNCHANGED <<hook, shouldRequest, observes, deps>>
    /\ UNCHANGED notRequest

\* submit(x), i.e. setData(x): no render when x is the current data
Submit(x) ==
    /\ phase = "mounted"
    /\ hook \in {"useSubmit", "useSubmitter"}
    /\ Become(IF x = data THEN World
               ELSE IF hook = "useSubmit"
               THEN SubmitDataEffect([World EXCEPT !.data = x], deps, observes)
               ELSE SubmitterDataEffect([World EXCEPT !.data = x], deps, observes))
    /\ last' = "submit"
    /\ UNCHANGED <<hook, shouldRequest, observes, phase, deps>>
    /\ UNCHANGED notRequest

\* submit(x) when fn throws instead of returning a promise: the [data] effect
\* has run the previous cleanup and queued the pending state when the exception
\* leaves it; React, finding no error boundary, removes the component and
\* rethrows the exception
SubmitThrows(x) ==
    /\ phase = "mounted"
    /\ hook = "useSubmit"
    /\ x # data
    /\ ~SubmitSkips(x, state)
    /\ phase' = "crashed"
    /\ data' = x
    /\ reqs' = RunCleanup(reqs, cleanup, observes)
    /\ cleanup' = 0
    /\ call' = Call(x, deps)
    /\ last' = "throw"
    /\ UNCHANGED <<hook, shouldRequest, observes, deps, state>>
    /\ UNCHANGED notRequest

\* a render with other deps
DepsChange(d) ==
    /\ phase = "mounted"
    /\ hook \in {"useSubmit", "useAsyncData"}
    /\ d # deps
    /\ deps' = d
    /\ Become(IF hook = "useSubmit"
               THEN SubmitDepsEffect(World, d, observes)
               ELSE AsyncDepsEffect(World, shouldRequest, d, observes))
    /\ last' = "deps"
    /\ UNCHANGED <<hook, shouldRequest, observes, phase>>
    /\ UNCHANGED notRequest

\* faulty variant: abort is always bound to the controller created last
AbortCallLatest(rs, st, reason, obeys) ==
    IF Len(rs) = 0 THEN rs ELSE CtrlAbort(rs, Len(rs), reason, obeys)

\* state.abort(reason)
AbortCall(rs, st, reason, obeys) ==
    IF st.abort = 0 THEN rs ELSE CtrlAbort(rs, st.abort, reason, obeys)

Abort(reason) ==
    /\ phase = "mounted"
    /\ reqs' = AbortCall(reqs, state, reason, observes)
    /\ last' = "abort"
    /\ UNCHANGED <<hook, shouldRequest, observes, phase, deps, data, state, cleanup, call>>
    /\ UNCHANGED notRequest

\* the operation's promise resolves / rejects
Resolve(k, v) ==
    /\ phase = "mounted"
    /\ k \in 1..Len(reqs)
    /\ reqs[k].promise = "pending"
    /\ reqs' = [reqs EXCEPT ![k].promise = "resolved", ![k].value = v]
    /\ last' = "resolve"
    /\ UNCHANGED <<hook, shouldRequest, observes, phase, deps, data, state, cleanup, call>>
    /\ UNCHANGED notRequest

Reject(k, e) ==
    /\ phase = "mounted"
    /\ k \in 1..Len(reqs)
    /\ reqs[k].promise = "pending"
    /\ reqs' = [reqs EXCEPT ![k].promise = "rejected", ![k].value = e]
    /\ last' = "reject"
    /\ UNCHANGED <<hook, shouldRequest, observes, phase, deps, data, state, cleanup, call>>
    /\ UNCHANGED notRequest

\* what the .then callback of request k makes of the state
ThenState(h, st, r) ==
    IF h = "useSubmit" THEN SubmitThenState(r.value)
    ELSE IF h = "useSubmitter" THEN SubmitterThenState(st, r.value)
    ELSE IF r.aborted THEN st
    ELSE AsyncThenState(st, r.value)

CatchState(h, st, r) ==
    IF h = "useSubmit" THEN SubmitCatchState(r.value)
    ELSE IF h = "useSubmitter" THEN SubmitterCatchState(st, r.value)
    ELSE AsyncCatchState(st, r.value)

\* the number of setState calls the .then callback of request r makes
ThenWrites(h, r) == IF h = "useAsyncData" /\ r.aborted THEN 0 ELSE 1

\* the promise callbacks; the model follows the component until it unmounts
ThenCallback(k) ==
    /\ phase = "mounted"
    /\ k \in 1..Len(reqs)
    /\ reqs[k].promise = "resolved"
    /\ state' = ThenState(hook, state, reqs[k])
    /\ reqs' = [reqs EXCEPT ![k] = Handled(@.writes + ThenWrites(hook, reqs[k]))]
    /\ last' = "then"
    /\ UNCHANGED <<hook, shouldRequest, observes, phase, deps, data, cleanup, call>>
    /\ UNCHANGED notRequest

CatchCallback(k) ==
    /\ phase = "mounted"
    /\ k \in 1..Len(reqs)
    /\ reqs[k].promise = "rejected"
    /\ state' = CatchState(hook, state, reqs[k])
    /\ reqs' = [reqs EXCEPT ![k] = Handled(@.writes + 1)]
    /\ last' = "catch"
    /\ UNCHANGED <<hook, shouldRequest, observes, phase, deps, data, cleanup, call>>
    /\ UNCHANGED notRequest

\* set is called once or several times before the next render
SetCalls == UNION {[1..n -> SetArgs] : n \in 1..MaxSets}

Set(args) ==
    /\ phase = "mounted"
    /\ hook = "useAsyncData"
    /\ state' = AsyncSetAll(state, state, args)
    /\ last' = IF Len(args) = 1 THEN "set" ELSE "sets"
    /\ UNCHANGED <<hook, shouldRequest, observes, phase, deps, data, reqs, cleanup, call>>
    /\ UNCHANGED notRequest

\* a render with deps equal to those of the last render: no effect runs
RenderSameDeps ==
    /\ phase = "mounted"
    /\ last' = "render"
    /\ UNCHANGED <<hook, shouldRequest, observes, phase, deps, data, state, reqs, cleanup, call>>
    /\ UNCHANGED notRequest

\* faulty variant: unmounting runs no cleanup
UnmountNoCleanup ==
    /\ phase = "mounted"
    /\ phase' = "unmounted"
    /\ last' = "unmount"
    /\ UNCHANGED <<hook, shouldRequest, observes, deps, data, state, reqs, cleanup, call>>
    /\ UNCHANGED notRequest

\* the component is removed: the cleanup of the last effect run is called
Unmount ==
    /\ phase = "mounted"
    /\ phase' = "unmounted"
    /\ reqs' = RunCleanup(reqs, cleanup, observes)
    /\ cleanup' = 0
    /\ last' = "unmount"
    /\ UNCHANGED <<hook, shouldRequest, observes, deps, data, state, call>>
    /\ UNCHANGED notRequest

Next ==
    \/ Mount
    \/ \E x \in Inputs : Submit(x)
    \/ \E x \in Inputs : SubmitThrows(x)
    \/ \E d \in DepValues : DepsChange(d)
    \/ \E reason \in Reasons : Abort(reason)
    \/ \E k \in 1..MaxReqs, v \in ResolveValues : Resolve(k, v)
    \/ \E k \in 1..MaxReqs, e \in RejectValues : Reject(k, e)
    \/ \E k \in 1..MaxReqs : ThenCallback(k)
    \/ \E k \in 1..MaxReqs : CatchCallback(k)
    \/ \E args \in SetCalls : Set(args)
    \/ RenderSameDeps
    \/ Unmount

Spec == Init /\ [][Next]_vars


(***************************************************************************)
(* useRevertibleState (useUndoRedo has the same body).                     *)
(*                                                                         *)
(* rev.index is the ref `index.current`, counted from 0 as in the source;  *)
(* rev.history is the `history` state, a sequence indexed from 1, so the   *)
(* entry at index i is rev.history[i + 1].  A callback reads `state` and   *)
(* `history` of the render that created it (c, its closure) and the ref    *)
(* of the moment it runs (r).  One step is one call together with the      *)
(* re-render that follows it.                                              *)
(***************************************************************************)

MaxHistory == 4

Values == {"", "foo", "bar"}
Initials == {"", "foo"}

\* the updater function passed to setState in its function form
Updater(s) == IF s = "foo" THEN "bar" ELSE "foo"
Args == [fn : {FALSE}, v : Values] \cup {[fn |-> TRUE, v |-> ""]}

\* JavaScript's history.slice(0, n)
Slice(history, n) == SubSeq(history, 1, n)

\* faulty variant: the entry at the cursor is dropped as well
TruncateOffByOne(history, index) ==
    IF index < Len(history) - 1 THEN Slice(history, index) ELSE history

\* source lines 40-44
Truncate(history, index) ==
    IF index < Len(history) - 1 THEN Slice(history, index + 1) ELSE history

SetState(c, r, arg) ==
    LET newState == IF arg.fn THEN Updater(c.state) ELSE arg.v
    IN  [state |-> newState,
         history |-> Append(Truncate(c.history, r.index), newState),
         index |-> r.index + 1]

\* history[i] of JavaScript, undefined outside the array
At(history, i) == IF i + 1 \in DOMAIN history THEN history[i + 1] ELSE "undefined"

\* faulty variant: undo goes back to the first entry
UndoToFirst(c, r) ==
    IF r.index > 0 THEN [r EXCEPT !.index = 0, !.state = At(c.history, 0)] ELSE r

\* faulty variant: the cursor moves but the state is not set
UndoKeepsState(c, r) ==
    IF r.index > 0 THEN [r EXCEPT !.index = @ - 1] ELSE r

Undo(c, r) ==
    IF r.index > 0
    THEN [r EXCEPT !.index = @ - 1, !.state = At(c.history, r.index - 1)]
    ELSE r

\* faulty variant: the cursor moves but the state is not set
RedoKeepsState(c, r) ==
    IF r.index < Len(c.history) - 1 THEN [r EXCEPT !.index = @ + 1] ELSE r

Redo(c, r) ==
    IF r.index < Len(c.history) - 1
    THEN [r EXCEPT !.index = @ + 1, !.state = At(c.history, r.index + 1)]
    ELSE r

Clear(r, init) == [state |-> init, history |-> <<init>>, index |-> 0]

\* a call, with the cursor and the length of the history it found
Op(name, r) == [name |-> name, index |-> r.index, len |-> Len(r.history)]

\* the request hooks are not used
RequestUnused ==
    /\ hook = "none"
    /\ shouldRequest = "none"
    /\ observes = FALSE
    /\ phase = "mounted"
    /\ deps = 1
    /\ data = Undef
    /\ state = Undef
    /\ reqs = <<>>
    /\ cleanup = 0
    /\ call = Call(Undef, 0)
    /\ last = "none"

InitHistory ==
    /\ RequestUnused
    /\ StorageUnused
    /\ BrowserUnused
    /\ UrlUnused
    /\ RouterUnused
    /\ DebounceUnused
    /\ PropUnused
    /\ initial \in Initials
    /\ original = initial
    /\ rev = [state |-> initial, history |-> <<initial>>, index |-> 0]
    /\ op = Op("construct", rev)

CallSetState(arg) ==
    /\ Len(SetState(rev, rev, arg).history) <= MaxHistory
    /\ rev' = SetState(rev, rev, arg)
    /\ op' = Op("setState", rev)
    /\ UNCHANGED <<initial, original>>
    /\ UNCHANGED notHistory

CallUndo ==
    /\ rev' = Undo(rev, rev)
    /\ op' = Op("undo", rev)
    /\ UNCHANGED <<initial, original>>
    /\ UNCHANGED notHistory

CallRedo ==
    /\ rev' = Redo(rev, rev)
    /\ op' = Op("redo", rev)
    /\ UNCHANGED <<initial, original>>
    /\ UNCHANGED notHistory

CallClear ==
    /\ rev' = Clear(rev, initial)
    /\ op' = Op("clear", rev)
    /\ UNCHANGED <<initial, original>>
    /\ UNCHANGED notHistory

\* the component renders again with another `initial` argument; useState
\* takes its argument at the first render only
Rerender(i) ==
    /\ i # initial
    /\ initial' = i
    /\ op' = Op("render", rev)
    /\ UNCHANGED <<rev, original>>
    /\ UNCHANGED notHistory

NextHistory ==
    \/ \E arg \in Args : CallSetState(arg)
    \/ CallUndo
    \/ CallRedo
    \/ CallClear
    \/ \E i \in Initials : Rerender(i)

SpecHistory == InitHistory /\ [][NextHistory]_vars

\* the calls an event handler can make: setState(arg), undo() or redo()
Calls == [name : {"setState"}, arg : Args]
         \cup [name : {"undo", "redo"}, arg : {[fn |-> FALSE, v |-> ""]}]

\* one call, made by a callback of the render c when the ref and the queued
\* updates are r
Do(made, c, r) ==
    IF made.name = "setState" THEN SetState(c, r, made.arg)
    ELSE IF made.name = "undo" THEN Undo(c, r)
    ELSE Redo(c, r)

\* an event handler makes two calls before the component renders again: both
\* callbacks are those of the last render, the ref is shared, and of the
\* values queued for `state` and for `history` the last one is rendered
CallPair(a, b) ==
    /\ Len(Do(b, rev, Do(a, rev, rev)).history) <= MaxHistory
    /\ rev' = Do(b, rev, Do(a, rev, rev))
    /\ op' = Op("pair", rev)
    /\ UNCHANGED <<initial, original>>
    /\ UNCHANGED notHistory

NextHistoryBatch ==
    \/ NextHistory
    \/ \E a \in Calls, b \in Calls : CallPair(a, b)

SpecHistoryBatch == InitHistory /\ [][NextHistoryBatch]_vars


(***************************************************************************)
(* useStorageState.                                                        *)
(*                                                                         *)
(* A Storage maps keys to strings; JSON.stringify and JSON.parse are given *)
(* on the values and texts used here.  One step is one call or one change  *)
(* of the arguments together with the render and the effect that follow.   *)
(***************************************************************************)

Keys == {"foo", "bar"}
Storages == {"localStorage", "sessionStorage"}

\* JSON values of type T; an object is named by its source text
Num(n) == [t |-> "number", v |-> n]
Null == [t |-> "null", v |-> "null"]
Obj(o) == [t |-> "object", v |-> o]
FooBar == Obj("{foo:'bar'}")
FooBaz == Obj("{foo:'baz'}")
FooBazOpt == Obj("{foo:'baz',opt:undefined}")
StateValues == {FooBar, FooBaz, FooBazOpt, Null, Num("NaN")}

\* the `initials` argument
initials == FooBar

\* JSON.stringify: a number that is not finite becomes null, a member whose
\* value is undefined is left out
Stringify(x) ==
    IF x.t = "number" THEN (IF x.v \in {"NaN", "Infinity"} THEN "null" ELSE x.v)
    ELSE IF x.t = "null" THEN "null"
    ELSE IF x = FooBar THEN "{\"foo\":\"bar\"}"
    ELSE "{\"foo\":\"baz\"}"

\* JSON.parse: the value, or a SyntaxError
Parse(text) ==
    IF text = "null" THEN [ok |-> TRUE, value |-> Null]
    ELSE IF text = "{\"foo\":\"bar\"}" THEN [ok |-> TRUE, value |-> FooBar]
    ELSE IF text = "{\"foo\":\"baz\"}" THEN [ok |-> TRUE, value |-> FooBaz]
    ELSE [ok |-> FALSE, value |-> Undef]

\* the items a storage holds before the component is created
Texts == {"", "{oops", "{\"foo\":\"baz\"}"}
NoItem == [has |-> FALSE, text |-> ""]
Item(text) == [has |-> TRUE, text |-> text]

\* storage.getItem(key), storage.setItem(key, text)
GetItem(ss, storage, key) == ss[storage][key]
SetItem(ss, storage, key, text) == [ss EXCEPT ![storage][key] = Item(text)]

\* faulty variant: the stored text is not read
StorageInitIgnoresItem(ss, storage, key) == initials

\* faulty variant: a text that does not parse leaves the state undefined
StorageInitNoFallback(ss, storage, key) ==
    LET storedValue == GetItem(ss, storage, key)
    IN IF storedValue.has /\ storedValue.text # ""
       THEN Parse(storedValue.text).value
       ELSE initials

\* init(): the parsed item, or initials if there is none, it is empty or it
\* does not parse
StorageInit(ss, storage, key) ==
    LET storedValue == GetItem(ss, storage, key)
        parsed == Parse(storedValue.text)
    IN IF storedValue.has /\ storedValue.text # "" /\ parsed.ok
       THEN parsed.value
       ELSE initials

\* init(): the text given to console.error by the catch, "" if it is not reached
StorageInitLog(ss, storage, key) ==
    LET storedValue == GetItem(ss, storage, key)
    IN IF storedValue.has /\ storedValue.text # "" /\ ~Parse(storedValue.text).ok
       THEN storedValue.text
       ELSE ""

\* the updater function passed to setState in its function form
StorageUpdater(x) == IF x = FooBar THEN FooBaz ELSE FooBar
StorageArgs == [fn : {FALSE}, v : StateValues] \cup {[fn |-> TRUE, v |-> Undef]}
NewState(arg, x) == IF arg.fn THEN StorageUpdater(x) ELSE arg.v

\* faulty variant: no two objects are found equal
EqualsNever(a, b) == FALSE

\* @ayonli/jsext equals: deep equality
Equals(a, b) == a = b

\* setState(newState) of the last render
StorageSetState(ss, pr, hs, arg) ==
    LET newState == NewState(arg, hs.state)
    IN IF pr.deepCompare /\ Equals(newState, hs.state)
       THEN [stores |-> ss, hook |-> hs]
       ELSE [stores |-> SetItem(ss, pr.storage, pr.key, Stringify(newState)),
             hook |-> [hs EXCEPT !.state = newState, !.id = 1 - @]]

\* what the [key, storage] effect of a render with arguments pr logs
StorageEffectLog(ss, pr, hs) ==
    IF hs.prevKey # pr.key \/ hs.prevStorage # pr.storage
    THEN StorageInitLog(ss, pr.storage, pr.key)
    ELSE ""

\* faulty variant: the state is not initialised again
StorageEffectKeepsState(ss, pr, hs) == [hs EXCEPT !.prevKey = pr.key]

\* the [key, storage] effect of a render with arguments pr
StorageEffect(ss, pr, hs) ==
    IF hs.prevKey # pr.key \/ hs.prevStorage # pr.storage
    THEN [hs EXCEPT !.prevKey = pr.key,
                    !.state = StorageInit(ss, pr.storage, pr.key),
                    !.id = 1 - @]
    ELSE hs

\* the first render
StorageMount(ss, pr) ==
    [state |-> StorageInit(ss, pr.storage, pr.key), id |-> 0,
     prevKey |-> pr.key, prevStorage |-> pr.storage]

InitStorage ==
    /\ RequestUnused
    /\ HistoryUnused
    /\ BrowserUnused
    /\ UrlUnused
    /\ RouterUnused
    /\ DebounceUnused
    /\ PropUnused
    /\ stores \in [Storages -> [Keys -> {NoItem} \cup {Item(t) : t \in Texts}]]
    /\ stores["sessionStorage"]["bar"] = NoItem
    /\ props \in [key : Keys, storage : Storages, deepCompare : BOOLEAN]
    /\ storageState = StorageMount(stores, props)
    /\ logged = StorageInitLog(stores, props.storage, props.key)
    /\ stored = "mount"

CallStorageSetState(arg) ==
    /\ stored # "none"
    /\ stores' = StorageSetState(stores, props, storageState, arg).stores
    /\ storageState' = StorageSetState(stores, props, storageState, arg).hook
    /\ stored' = "setState"
    /\ logged' = ""
    /\ UNCHANGED props
    /\ UNCHANGED notStorage

\* the component renders with another key or storage
PropsChange(key, storage) ==
    /\ stored # "none"
    /\ <<key, storage>> # <<props.key, props.storage>>
    /\ props' = [props EXCEPT !.key = key, !.storage = storage]
    /\ storageState' = StorageEffect(stores, props', storageState)
    /\ logged' = StorageEffectLog(stores, props', storageState)
    /\ stored' = "props"
    /\ UNCHANGED stores
    /\ UNCHANGED notStorage

\* the page is loaded again: the component is created anew
Remount ==
    /\ stored # "none"
    /\ storageState' = StorageMount(stores, props)
    /\ logged' = StorageInitLog(stores, props.storage, props.key)
    /\ stored' = IF stored \in {"setState", "setState, mount"}
                 THEN "setState, mount" ELSE "mount"
    /\ UNCHANGED <<stores, props>>
    /\ UNCHANGED notStorage

NextStorage ==
    \/ \E arg \in StorageArgs : CallStorageSetState(arg)
    \/ \E key \in Keys, storage \in Storages : PropsChange(key, storage)
    \/ Remount

SpecStorage == InitStorage /\ [][NextStorage]_vars


(***************************************************************************)
(* useUrlState.                                                            *)
(*                                                                         *)
(* The state is an object with one member `foo` and the member '#'         *)
(* (Undef and "" when absent).  location.search is the query of the one    *)
(* key: none, the key alone ("?foo") or a pair ("?foo=text");              *)
(* location.hash is the text after '#'.  One step is one call or page load *)
(* together with the renders and effects that follow.                      *)
(***************************************************************************)

Bool(b) == [t |-> "boolean", v |-> b]

NoQuery == [t |-> "none", v |-> ""]
KeyOnly == [t |-> "key", v |-> ""]
Pair(text) == [t |-> "pair", v |-> text]

Paths == {"/", "/about"}
Hashes == {"", "hash"}
Queries == {NoQuery, KeyOnly, Pair("baz"), Pair("123")}

\* an entry of the session history: its URL and history.state
Entry(pathname, search, hash, st) ==
    [pathname |-> pathname, search |-> search, hash |-> hash, state |-> st]

\* window.location
Location(b) == b.entries[b.index]

\* faulty variant: history.pushState
ReplaceStatePushes(b, st, pathname, search, hash) ==
    [entries |-> Append(SubSeq(b.entries, 1, b.index), Entry(pathname, search, hash, st)),
     index |-> b.index + 1]

\* history.replaceState(st, "", path)
ReplaceState(b, st, pathname, search, hash) ==
    [b EXCEPT !.entries[b.index] = Entry(pathname, search, hash, st)]

\* the states of the hook
UrlMembers == {Undef, Null, Str("bar"), Str("123"), Num("123"), Bool("true")}
UrlStates == [foo : UrlMembers, hash : Hashes]
EmptyState == [foo |-> Undef, hash |-> ""]

\* /^-?\d+(\.\d+)?$/.test(value), on the texts used here
IsNumeric(text) == text \in {"123", "456"}

\* toClosestType for a string
ToClosestType(text) ==
    IF text \in {"true", "false"} THEN Bool(text)
    ELSE IF text = "null" THEN Null
    ELSE IF text = "undefined" THEN Undef
    ELSE IF IsNumeric(text) THEN Num(text)
    ELSE Str(text)

\* qs.stringify with strictNullHandling: a member that is undefined is left
\* out, null is written as the key alone, any other value as its text
EncodeQueryString(st) ==
    IF st.foo = Undef THEN NoQuery
    ELSE IF st.foo.t = "null" THEN KeyOnly
    ELSE Pair(st.foo.v)

\* faulty variant: values are never coerced
DecodeQueryStringNoCoerce(search, noCoerce) ==
    [foo |-> IF search.t = "none" THEN Undef
             ELSE IF search.t = "key" THEN Null
             ELSE Str(search.v),
     hash |-> ""]

\* qs.parse followed by toClosestType unless noCoerce is true
DecodeQueryString(search, noCoerce) ==
    [foo |-> IF search.t = "none" THEN Undef
             ELSE IF search.t = "key" THEN Null
             ELSE IF noCoerce THEN Str(search.v)
             ELSE ToClosestType(search.v),
     hash |-> ""]

\* JSON.parse(JSON.stringify(initials))
JsonCopy(st) ==
    [st EXCEPT !.foo = IF @.t = "number" /\ @.v \in {"NaN", "Infinity"} THEN Null ELSE @]

\* the initial state of the hook on location loc
UrlInitState(loc, pr) ==
    LET st == IF loc.search # NoQuery
              THEN DecodeQueryString(loc.search, pr.noCoerce)
              ELSE JsonCopy(pr.initials)
    IN IF loc.hash # "" THEN [st EXCEPT !.hash = loc.hash] ELSE st

\* the mount effect: a state that is not empty is written to the URL
UrlSyncEffect(b, st) ==
    IF st # EmptyState
    THEN ReplaceState(b, Null, Location(b).pathname, EncodeQueryString(st), st.hash)
    ELSE b

\* faulty variant: the effect does not run
UrlSearchEffectNever(b, pr, hs, cache) == hs

\* the [location.search] effect of a render whose state is hs and whose
\* cache is `cache`
UrlSearchEffect(b, pr, hs, cache) ==
    IF Location(b).search # cache
    THEN LET decoded == DecodeQueryString(Location(b).search, pr.noCoerce)
             st == IF Location(b).hash # ""
                   THEN [decoded EXCEPT !.hash = Location(b).hash] ELSE decoded
         IN IF pr.deepCompare /\ Equals(st, hs.state)
            THEN hs
            ELSE [hs EXCEPT !.state = st, !.id = 1 - @]
    ELSE hs

\* the first render and its two effects; setCache is applied by the next
\* render, whose [location.search] effect then finds the cache equal
UrlMounted(b, pr) ==
    LET st == UrlInitState(Location(b), pr)
        cache == Location(b).search
        b1 == UrlSyncEffect(b, st)
        hs == UrlSearchEffect(b1, pr, [state |-> st, cache |-> cache, id |-> 0], cache)
    IN [browser |-> b1,
        hook |-> [hs EXCEPT !.cache = IF st # EmptyState THEN EncodeQueryString(st) ELSE cache]]

\* the updater function passed to setState in its function form
UrlUpdater(st) == [st EXCEPT !.foo = IF @ = Str("bar") THEN Num("123") ELSE Str("bar")]
UrlArgs == [fn : {FALSE}, v : UrlStates] \cup {[fn |-> TRUE, v |-> EmptyState]}
UrlNewState(arg, st) == IF arg.fn THEN UrlUpdater(st) ELSE arg.v

\* setState(newState) of the last render, with the render that follows
UrlSetState(b, pr, hs, arg) ==
    LET newState == UrlNewState(arg, hs.state)
        search == EncodeQueryString(newState)
        b1 == ReplaceState(b, Null, Location(b).pathname, search, newState.hash)
        h1 == [state |-> newState, cache |-> search, id |-> 1 - hs.id]
    IN IF pr.deepCompare /\ Equals(newState, hs.state)
       THEN [browser |-> b, hook |-> hs]
       ELSE [browser |-> b1, hook |-> UrlSearchEffect(b1, pr, h1, search)]

\* the pages visited before the one of the component
Home == Entry("/", NoQuery, "", Null)

InitUrl ==
    /\ RequestUnused
    /\ HistoryUnused
    /\ StorageUnused
    /\ RouterUnused
    /\ DebounceUnused
    /\ PropUnused
    /\ \E e \in [pathname : Paths, search : Queries, hash : Hashes, state : {Null}] :
         browser \in {[entries |-> <<e>>, index |-> 1],
                      [entries |-> <<Home, e>>, index |-> 2],
                      [entries |-> <<e, Home>>, index |-> 1]}
    /\ urlProps \in [initials : {[foo |-> Str("bar"), hash |-> ""],
                                 [foo |-> Str("123"), hash |-> ""],
                                 EmptyState},
                     deepCompare : BOOLEAN, noCoerce : BOOLEAN]
    /\ urlState = [state |-> EmptyState, cache |-> NoQuery, id |-> 0]
    /\ visited = "load"

\* the component is rendered for the first time on the loaded page
UrlMount ==
    /\ visited = "load"
    /\ browser' = UrlMounted(browser, urlProps).browser
    /\ urlState' = UrlMounted(browser, urlProps).hook
    /\ visited' = "mount"
    /\ UNCHANGED urlProps
    /\ UNCHANGED notUrl

CallUrlSetState(arg) ==
    /\ visited \in {"mount", "setState"}
    /\ browser' = UrlSetState(browser, urlProps, urlState, arg).browser
    /\ urlState' = UrlSetState(browser, urlProps, urlState, arg).hook
    /\ visited' = "setState"
    /\ UNCHANGED urlProps
    /\ UNCHANGED notUrl

\* the page is refreshed: the URL stays, the component is gone
Refresh ==
    /\ visited \in {"mount", "setState"}
    /\ urlState' = [state |-> EmptyState, cache |-> NoQuery, id |-> 0]
    /\ visited' = "load"
    /\ UNCHANGED <<browser, urlProps>>
    /\ UNCHANGED notUrl

NextUrl ==
    \/ UrlMount
    \/ \E arg \in UrlArgs : CallUrlSetState(arg)
    \/ Refresh

SpecUrl == InitUrl /\ [][NextUrl]_vars

\* the two hooks that persist their state
InitPersisted == InitStorage \/ InitUrl

NextPersisted == NextStorage \/ NextUrl

SpecPersisted == InitPersisted /\ [][NextPersisted]_vars


(***************************************************************************)
(* useRouter, inside React Router's BrowserRouter.                         *)
(*                                                                         *)
(* navigate(to, options) of React Router pushes an entry after the current *)
(* one, or replaces the current one when options.replace is set, stores    *)
(* options.state in it and gives the location a new key.  The targets are  *)
(* of the page's own origin.  One step is one call of push or replace with *)
(* the render that follows.                                                *)
(***************************************************************************)

MaxKeys == 2

\* history.state as React Router writes it, for the location state usr
RouterState(usr) == [t |-> "router", v |-> usr.v]

\* the state option: absent, or a value
OptionStates == {Undef, Str("{foo:'bar'}")}

\* the `to` argument: a path string, a "?query" string, a URL or a
\* URLSearchParams
Tos ==
    [kind : {"path", "URL"}, pathname : Paths, search : {NoQuery, Pair("bar")}, hash : {""}]
    \cup [kind : {"query", "URLSearchParams"}, pathname : {""},
          search : {NoQuery, Pair("bar")}, hash : {""}]

\* a string becomes a URLSearchParams if it starts with "?", a URL otherwise
Normalize(to) ==
    IF to.kind = "path" THEN [to EXCEPT !.kind = "URL"]
    ELSE IF to.kind = "query" THEN [to EXCEPT !.kind = "URLSearchParams"]
    ELSE to

\* navigate(target, {replace, state}) of React Router
Navigate(b, r, pathname, search, hash, replace, st) ==
    LET usr == IF st = Undef THEN Null ELSE st
        e == Entry(pathname, search, hash, RouterState(usr))
    IN [browser |-> IF replace
                    THEN [b EXCEPT !.entries[b.index] = e]
                    ELSE [entries |-> Append(SubSeq(b.entries, 1, b.index), e),
                          index |-> b.index + 1],
        router |-> [pathname |-> pathname, search |-> search, hash |-> hash,
                    state |-> usr, key |-> r.key + 1]]

\* push(to, options)
RouterPush(b, r, to, replace, st) ==
    LET t == Normalize(to)
    IN IF t.kind = "URL"
       THEN Navigate(b, r, t.pathname, t.search, t.hash, replace, st)
       ELSE Navigate(b, r, Location(b).pathname, t.search, Location(b).hash, FALSE, Undef)

\* faulty variant: the silent option is not honoured
RouterReplaceNeverSilent(b, r, to, st, silent) == RouterPush(b, r, to, TRUE, st)

\* replace(to, options)
RouterReplace(b, r, to, st, silent) ==
    LET t == Normalize(to)
    IN IF ~silent
       THEN RouterPush(b, r, t, TRUE, st)
       ELSE [browser |-> IF t.kind = "URL"
                         THEN ReplaceState(b, Null, t.pathname, t.search, t.hash)
                         ELSE ReplaceState(b, Null, Location(b).pathname, t.search,
                                           Location(b).hash),
             router |-> r]

InitRouter ==
    /\ RequestUnused
    /\ HistoryUnused
    /\ StorageUnused
    /\ UrlUnused
    /\ DebounceUnused
    /\ PropUnused
    /\ \E e \in [pathname : Paths, search : {NoQuery}, hash : Hashes,
                 state : {RouterState(Null)}] :
         browser \in {[entries |-> <<e>>, index |-> 1],
                      [entries |-> <<Home, e>>, index |-> 2],
                      [entries |-> <<e, Home>>, index |-> 1]}
    /\ router = [pathname |-> Location(browser).pathname, search |-> Location(browser).search,
                 hash |-> Location(browser).hash, state |-> Null, key |-> 0]
    /\ routed = [name |-> "load", kind |-> "", silent |-> FALSE]

CallPush(to, st) ==
    /\ routed.name # "none"
    /\ router.key < MaxKeys
    /\ browser' = RouterPush(browser, router, to, FALSE, st).browser
    /\ router' = RouterPush(browser, router, to, FALSE, st).router
    /\ routed' = [name |-> "push", kind |-> to.kind, silent |-> FALSE]
    /\ UNCHANGED notRouter

CallReplace(to, st, silent) ==
    /\ routed.name # "none"
    /\ silent \/ router.key < MaxKeys
    /\ browser' = RouterReplace(browser, router, to, st, silent).browser
    /\ router' = RouterReplace(browser, router, to, st, silent).router
    /\ routed' = [name |-> "replace", kind |-> to.kind, silent |-> silent]
    /\ UNCHANGED notRouter

NextRouter ==
    \/ \E to \in Tos, st \in OptionStates : CallPush(to, st)
    \/ \E to \in Tos, st \in OptionStates, silent \in BOOLEAN : CallReplace(to, st, silent)

SpecRouter == InitRouter /\ [][NextRouter]_vars


(***************************************************************************)
(* useDebouncedCallback.                                                   *)
(*                                                                         *)
(* debounce(handler, delay) of @ayonli/jsext returns a function that, on   *)
(* each call, clears its timer, keeps the data of the call, sets the timer *)
(* to `delay` and returns a promise; when the timer fires the handler is   *)
(* invoked once with the data kept and its result settles the promises of  *)
(* all the calls that were waiting.  useCallback returns the function of   *)
(* the render that last changed the deps.  The component calls the         *)
(* function its last render returned.  Time is counted in ticks, and a     *)
(* timer fires at the tick it is due.                                      *)
(***************************************************************************)

MaxCalls == 3
MaxTime == 5
MaxFns == 2
Delay == 2

DebounceTexts == {"foo", "bar"}
Suffixes == {"", "!"}

\* the callback of the test: (text, [suffix]) => text + suffix
Callback(text, suffix) == text \o suffix

\* debounce((data) => callback(data, deps), delay)
NewDebounced(d) == [deps |-> d, data |-> "", waiting |-> {}, timer |-> 0]

\* faulty variant: a call leaves a running timer as it is
DebouncedCallKeepsTimer(f, text, id, t) ==
    [f EXCEPT !.data = text, !.waiting = @ \cup {id},
              !.timer = IF f.timer # 0 THEN f.timer ELSE t + Delay]

\* a call, at time t, of the debounced function f; id names the promise returned
DebouncedCall(f, text, id, t) ==
    [f EXCEPT !.data = text, !.waiting = @ \cup {id}, !.timer = t + Delay]

\* useCallback(debounce(...), deps): the function kept, or a new one
UseCallback(fs, m, d) ==
    IF fs[m].deps = d
    THEN [debounced |-> fs, memo |-> m]
    ELSE [debounced |-> Append(fs, NewDebounced(d)), memo |-> Len(fs) + 1]

InitDebounce ==
    /\ RequestUnused
    /\ HistoryUnused
    /\ StorageUnused
    /\ BrowserUnused
    /\ UrlUnused
    /\ RouterUnused
    /\ PropUnused
    /\ hookDeps \in Suffixes
    /\ debounced = <<NewDebounced(hookDeps)>>
    /\ memo = 1
    /\ tasks = <<>>
    /\ invocations = <<>>
    /\ now = 0

\* a render with the deps d
DebounceRerender(d) ==
    /\ memo # 0
    /\ debounced[memo].deps # d => Len(debounced) < MaxFns
    /\ hookDeps' = d
    /\ debounced' = UseCallback(debounced, memo, d).debounced
    /\ memo' = UseCallback(debounced, memo, d).memo
    /\ UNCHANGED <<tasks, invocations, now>>
    /\ UNCHANGED notDebounce

\* the component calls the function of its last render
CallDebounced(text) ==
    /\ memo # 0
    /\ Len(tasks) < MaxCalls
    /\ tasks' = Append(tasks, [fn |-> memo, data |-> text, deps |-> hookDeps, at |-> now,
                               seq |-> Len(invocations), inv |-> 0,
                               resolved |-> FALSE, result |-> ""])
    /\ debounced' = [debounced EXCEPT ![memo] = DebouncedCall(@, text, Len(tasks) + 1, now)]
    /\ UNCHANGED <<memo, hookDeps, invocations, now>>
    /\ UNCHANGED notDebounce

\* the timer of the function f fires: the handler is invoked
TimerFires(f) ==
    /\ debounced[f].timer # 0
    /\ debounced[f].timer = now
    /\ invocations' = Append(invocations,
                             [fn |-> f, data |-> debounced[f].data,
                              deps |-> debounced[f].deps, current |-> hookDeps,
                              at |-> now, waiting |-> debounced[f].waiting,
                              settled |-> FALSE])
    /\ tasks' = [i \in 1..Len(tasks) |->
                    IF i \in debounced[f].waiting
                    THEN [tasks[i] EXCEPT !.inv = Len(invocations) + 1]
                    ELSE tasks[i]]
    /\ debounced' = [debounced EXCEPT ![f] = NewDebounced(@.deps)]
    /\ UNCHANGED <<memo, hookDeps, now>>
    /\ UNCHANGED notDebounce

\* the result of the invocation k settles the promises of its calls
Settle(k) ==
    /\ ~invocations[k].settled
    /\ invocations' = [invocations EXCEPT ![k].settled = TRUE]
    /\ tasks' = [i \in 1..Len(tasks) |->
                    IF i \in invocations[k].waiting
                    THEN [tasks[i] EXCEPT !.resolved = TRUE,
                                          !.result = Callback(invocations[k].data,
                                                              invocations[k].deps)]
                    ELSE tasks[i]]
    /\ UNCHANGED <<debounced, memo, hookDeps, now>>
    /\ UNCHANGED notDebounce

\* time passes, once the timers due have fired
Tick ==
    /\ memo # 0
    /\ now < MaxTime
    /\ \A f \in 1..Len(debounced) : debounced[f].timer = 0 \/ debounced[f].timer > now
    /\ now' = now + 1
    /\ UNCHANGED <<debounced, memo, hookDeps, tasks, invocations>>
    /\ UNCHANGED notDebounce

NextDebounce ==
    \/ \E d \in Suffixes : DebounceRerender(d)
    \/ \E text \in DebounceTexts : CallDebounced(text)
    \/ \E f \in 1..Len(debounced) : TimerFires(f)
    \/ \E k \in 1..Len(invocations) : Settle(k)
    \/ Tick

SpecDebounce == InitDebounce /\ [][NextDebounce]_vars

(***************************************************************************)
(* usePropState.  A value is given an identity, id, two values being the   *)
(* same for Object.is when both their content and their identity are.      *)
(***************************************************************************)

MaxRenders == 3

PropValues == [v : {"Hello", "World", "Hi"}, id : {0, 1}]

\* faulty variant: the effect runs after every render
PropEffectAlways(prev, init, st) == init

\* useEffect(() => setState(initial), [initial]) after a render that follows
\* one with the prop prev
PropEffect(prev, init, st) == IF prev # init THEN init ELSE st

InitProp ==
    /\ RequestUnused
    /\ HistoryUnused
    /\ StorageUnused
    /\ BrowserUnused
    /\ UrlUnused
    /\ RouterUnused
    /\ DebounceUnused
    /\ prop \in PropValues
    /\ propState = prop
    /\ renders = 1
    /\ propOp = [name |-> "mount", arg |-> prop]

\* setState(v), and the render it causes, with the same prop
CallPropSetState(v) ==
    /\ propOp.name # "none"
    /\ renders < MaxRenders
    /\ propState' = PropEffect(prop, prop, v)
    /\ renders' = IF v = propState THEN renders ELSE renders + 1
    /\ propOp' = [name |-> "setState", arg |-> v]
    /\ UNCHANGED prop
    /\ UNCHANGED notProp

\* the parent renders the component with the prop p
PropRerender(p) ==
    /\ propOp.name # "none"
    /\ renders < MaxRenders
    /\ prop' = p
    /\ propState' = PropEffect(prop, p, propState)
    /\ renders' = renders + 1
    /\ propOp' = [name |-> "rerender", arg |-> p]
    /\ UNCHANGED notProp

NextProp ==
    \/ \E v \in PropValues : CallPropSetState(v)
    \/ \E p \in PropValues : PropRerender(p)

SpecProp == InitProp /\ [][NextProp]_vars


(***************************************************************************)
(* Properties                                                              *)
(***************************************************************************)

Ids == 1..MaxReqs
Started == 1..Len(reqs)

SubmitIdle(st) == ~st.pending /\ ~st.done /\ st.result = Undef /\ st.error = Undef
SubmitIsPending(st) == st.pending /\ ~st.done /\ st.result = Undef /\ st.error = Undef

\* C1: in useSubmit, submit(x) with x not undefined in the Idle state calls
\* the operation exactly once, with x, and leaves pending=true, done=false,
\* result=undefined, error=undefined.
C1_SubmitWhileIdleStarts ==
    [][\A x \in Inputs :
        (hook = "useSubmit" /\ ~state.pending /\ ~state.done /\ Submit(x))
        => /\ Len(reqs') = Len(reqs) + 1
           /\ call' = Call(x, deps)
           /\ reqs'[Len(reqs')] = NewReq
           /\ SubmitIsPending(state')]_vars

C1_Witness ==
    /\ hook = "useSubmit"
    /\ last = "submit"
    /\ Len(reqs) = 1
    /\ call.input = Str("Alice")
    /\ SubmitIsPending(state)

\* C2: in useSubmit, the callback of a request whose promise resolved with v
\* leaves pending=false, done=true, result=v, error=undefined, the callback of
\* one that rejected with e leaves pending=false, done=true, result=undefined,
\* error=e; and while the component is mounted the callback of every settled
\* promise is ready to run.
C2_SettledRequestCompletes ==
    /\ [][\A k \in Ids :
            hook = "useSubmit" =>
                /\ ThenCallback(k) =>
                     /\ ~state'.pending /\ state'.done
                     /\ state'.result = reqs[k].value /\ state'.error = Undef
                /\ CatchCallback(k) =>
                     /\ ~state'.pending /\ state'.done
                     /\ state'.result = Undef /\ state'.error = reqs[k].value]_vars
    /\ [](\A k \in Started :
            (hook = "useSubmit" /\ phase = "mounted") =>
                /\ reqs[k].promise = "resolved" => ENABLED ThenCallback(k)
                /\ reqs[k].promise = "rejected" => ENABLED CatchCallback(k))

C2_Witness ==
    /\ hook = "useSubmit"
    /\ last = "then"
    /\ state.done /\ ~state.pending
    /\ state.result = Str("ok") /\ state.error = Undef

\* C3 as claimed: in useSubmit, done implies that exactly one of result and
\* error is set, and not done implies that neither is.
C3_ExactlyOneWhenDone ==
    hook = "useSubmit" =>
        /\ state.done => ((state.result # Undef) # (state.error # Undef))
        /\ ~state.done => (state.result = Undef /\ state.error = Undef)

\* C3 amended: in useSubmit, done implies that at most one of result and error
\* is set, and a callback whose promise settled with a value other than
\* undefined sets exactly one; not done implies that neither is set.
C3_AtMostOneWhenDone ==
    /\ [](hook = "useSubmit" =>
            /\ state.done => (state.result = Undef \/ state.error = Undef)
            /\ ~state.done => (state.result = Undef /\ state.error = Undef))
    /\ [][\A k \in Ids :
            (hook = "useSubmit" /\ (ThenCallback(k) \/ CatchCallback(k))
                /\ reqs[k].value # Undef)
            => (state'.done /\ ((state'.result # Undef) # (state'.error # Undef)))]_vars

C3_Witness ==
    /\ hook = "useSubmit"
    /\ last = "then"
    /\ state.done
    /\ state.result = Undef /\ state.error = Undef

IsPending(h, st) == IF h = "useAsyncData" THEN st.loading ELSE st.pending
ResultOf(h, st) == IF h = "useAsyncData" THEN st.data ELSE st.result

\* C4 as claimed: in useSubmit and useAsyncData with an operation that rejects
\* with signal.reason on abort, once the promise callback of a request whose
\* signal was aborted has run, pending/loading is false, result/data is
\* undefined and error is the reason given to abort (the generic abort error
\* when none was given).
C4_AbortYieldsReason ==
    [][\A k \in Ids :
        (/\ hook \in {"useSubmit", "useAsyncData"}
         /\ observes
         /\ k \in Started
         /\ reqs[k].aborted
         /\ state.abort = k
         /\ (ThenCallback(k) \/ CatchCallback(k)))
        => /\ ~IsPending(hook, state')
           /\ ResultOf(hook, state') = Undef
           /\ state'.error = reqs[k].reason]_vars

\* C5: in useSubmit, abort(reason) called when no request is pending, or when
\* the pending request's signal is aborted already, changes nothing (neither
\* the state nor any request); no request writes more than one outcome.
C5_AbortNoop ==
    /\ [][\A r \in Reasons :
            (/\ hook = "useSubmit"
             /\ Abort(r)
             /\ (~state.pending \/ reqs[state.abort].aborted))
            => UNCHANGED <<state, data, reqs, cleanup>>]_vars
    /\ [](hook = "useSubmit" => \A k \in Started : reqs[k].writes <= 1)

C5_Witness ==
    /\ hook = "useSubmit"
    /\ last = "abort"
    /\ state.done
    /\ \E k \in Started : reqs[k].promise = "pending"

\* C6 as claimed: in useSubmit, submit(y) while a request is pending starts
\* no operation, aborts no signal and leaves the state as it is.
C6_SubmitWhilePendingIgnored ==
    [][\A y \in Inputs :
        (hook = "useSubmit" /\ state.pending /\ Submit(y))
        => /\ Len(reqs') = Len(reqs)
           /\ \A k \in Started : reqs'[k].aborted = reqs[k].aborted
           /\ state' = state]_vars

Live(k) == reqs[k].promise = "pending" /\ ~reqs[k].aborted

\* C7: in every hook, at most one started operation is unsettled with a
\* signal that is not aborted.
C7_AtMostOneLive ==
    Cardinality({k \in Started : Live(k)}) <= 1

C7_Witness ==
    /\ Len(reqs) = 2
    /\ reqs[1].promise = "pending" /\ reqs[1].aborted
    /\ Live(2)

\* C8 as claimed: in useSubmit, submit(y) in the Done state with y other than
\* the data submitted before starts a request: fn is called with y, pending
\* becomes true, result and error are cleared.
C8_SubmitWhenDoneStarts ==
    [][\A y \in Inputs :
        (hook = "useSubmit" /\ state.done /\ data # Undef /\ y # data /\ Submit(y))
        => /\ Len(reqs') = Len(reqs) + 1
           /\ call' = Call(y, deps)
           /\ SubmitIsPending(state')]_vars

\* C8 amended: in useSubmit, submit(y) in the Done state starts no request and
\* leaves pending, done, result and error as they are; only `data` becomes y.
C8_SubmitWhenDoneIgnored ==
    [][\A y \in Inputs :
        (hook = "useSubmit" /\ state.done /\ y # data /\ Submit(y))
        => /\ Len(reqs') = Len(reqs)
           /\ call' = call
           /\ state' = state
           /\ data' = y]_vars

C8_Witness ==
    /\ hook = "useSubmit"
    /\ last = "submit"
    /\ state.done
    /\ state.result = Str("ok")
    /\ data = Str("Bob")

\* C9 as claimed: in useSubmit, a change of deps leaves the hook Idle with the
\* signal of every unsettled request aborted, and the submit(x) that follows
\* (no submit since the reset: data is undefined) starts a request with the
\* operation of the current render.
C9_DepsChangeResets ==
    /\ [][\A d \in DepValues :
            (hook = "useSubmit" /\ DepsChange(d))
            => /\ SubmitIdle(state')
               /\ \A k \in Started : reqs[k].promise = "pending" => reqs'[k].aborted]_vars
    /\ [][\A x \in Inputs :
            (hook = "useSubmit" /\ data = Undef /\ Submit(x))
            => /\ Len(reqs') = Len(reqs) + 1
               /\ call' = Call(x, deps)
               /\ SubmitIsPending(state')]_vars

\* C10: when a useSubmit or useAsyncData component unmounts, the signal of
\* every request whose promise is still pending is aborted.
C10_UnmountAborts ==
    [][(hook \in {"useSubmit", "useAsyncData"} /\ Unmount)
        => \A k \in Started : reqs[k].promise = "pending" => reqs'[k].aborted]_vars

C10_Witness ==
    /\ hook = "useSubmit"
    /\ phase = "unmounted"
    /\ ~observes
    /\ state.pending
    /\ reqs[state.abort].promise = "pending"
    /\ reqs[state.abort].aborted

\* C11 as claimed: in useSubmit no failure of the operation escapes as an
\* exception: the component is never removed because of one, and a failure is
\* seen as error with pending=false once its callback has run.
C11_FailuresCaptured ==
    /\ [](hook = "useSubmit" => phase # "crashed")
    /\ [][\A k \in Ids :
            (hook = "useSubmit" /\ CatchCallback(k))
            => (~state'.pending /\ state'.error = reqs[k].value)]_vars

(* ---------- useRevertibleState ---------- *)

\* C12: after any sequence of setState, undo, redo and clear calls, each
\* followed by a re-render, the cursor is a valid index of the history and
\* the entry at the cursor is the current state.
C12_CursorInHistory ==
    hook = "none" =>
        /\ 0 <= rev.index
        /\ rev.index < Len(rev.history)
        /\ rev.history[rev.index + 1] = rev.state

\* a push made after an undo, with the cursor and the state on the new last entry
C12_Witness ==
    /\ op.name = "setState"
    /\ op.index < op.len - 1
    /\ rev.index = Len(rev.history) - 1
    /\ rev.history[rev.index + 1] = rev.state

\* C13: setState(v) called while the cursor is not at the last entry discards
\* the entries after the cursor, appends v and puts the cursor on it; a redo()
\* that follows changes nothing, an undo() that follows yields the entry that
\* was current before the push.
C13_PushDiscardsRedoTail ==
    [][\A arg \in Args :
        (rev.index < Len(rev.history) - 1 /\ CallSetState(arg))
        => /\ rev'.state = (IF arg.fn THEN Updater(rev.state) ELSE arg.v)
           /\ rev'.history = Append(SubSeq(rev.history, 1, rev.index + 1), rev'.state)
           /\ rev'.index = Len(rev'.history) - 1
           /\ Redo(rev', rev') = rev'
           /\ Undo(rev', rev').state = rev.history[rev.index + 1]
           /\ Undo(rev', rev').index = rev.index]_vars

\* a push that found two entries after the cursor and left a history of two
C13_Witness ==
    /\ op.name = "setState"
    /\ op.index = 0
    /\ op.len = 3
    /\ Len(rev.history) = 2
    /\ rev.index = 1

\* C14: undo() moves to the previous entry when the cursor is above 0, redo()
\* to the next entry when the cursor is below the last index; undo() at 0 and
\* redo() at the last index change neither cursor, history nor state.
C14_UndoRedoMoveOrNoop ==
    [][/\ CallUndo =>
            IF rev.index > 0
            THEN /\ rev'.index = rev.index - 1
                 /\ rev'.state = rev.history[rev.index]
                 /\ rev'.history = rev.history
            ELSE rev' = rev
       /\ CallRedo =>
            IF rev.index < Len(rev.history) - 1
            THEN /\ rev'.index = rev.index + 1
                 /\ rev'.state = rev.history[rev.index + 2]
                 /\ rev'.history = rev.history
            ELSE rev' = rev]_vars

\* an undo() called at the first entry of a history of three
C14_Witness ==
    /\ op.name = "undo"
    /\ op.index = 0
    /\ op.len = 3
    /\ rev.index = 0
    /\ Len(rev.history) = 3

\* C15 as claimed: clear() leaves the single entry the hook was first created
\* with, the cursor at 0 and that value as the state, and undo() and redo()
\* then change nothing.  Violated: clear() takes the `initial` argument of the
\* last render.
C15_ClearRestoresOriginal ==
    [][CallClear
        => /\ rev' = [state |-> original, history |-> <<original>>, index |-> 0]
           /\ Undo(rev', rev') = rev'
           /\ Redo(rev', rev') = rev']_vars

(* ---------- useAsyncData ---------- *)

\* the request the last effect run started, neither aborted nor handled
Current(k) == cleanup = k /\ ~reqs[k].aborted

\* C16: mounting useAsyncData with no shouldRequest, or one that returns true,
\* starts exactly one request and shows loading=true with data and error
\* undefined; when that request resolves with v its callback is ready and
\* leaves loading=false, data=v, error=undefined; when it rejects with an
\* Error e its callback is ready and leaves loading=false, data=undefined,
\* error=e.
C16_MountLoadsOnce ==
    /\ [][(hook = "useAsyncData" /\ Mount /\ (shouldRequest = "none" \/ deps >= 2))
            => /\ Len(reqs') = 1
               /\ call' = Call(Undef, deps)
               /\ state'.loading /\ state'.data = Undef /\ state'.error = Undef]_vars
    /\ [][\A k \in Ids :
            (hook = "useAsyncData" /\ k \in Started /\ Current(k)) =>
                /\ ThenCallback(k) =>
                     /\ ~state'.loading
                     /\ state'.data = reqs[k].value /\ state'.error = Undef
                /\ (CatchCallback(k) /\ IsError(reqs[k].value)) =>
                     /\ ~state'.loading
                     /\ state'.data = Undef /\ state'.error = reqs[k].value]_vars
    /\ [](\A k \in Started :
            (hook = "useAsyncData" /\ phase = "mounted") =>
                /\ reqs[k].promise = "resolved" => ENABLED ThenCallback(k)
                /\ reqs[k].promise = "rejected" => ENABLED CatchCallback(k))

\* the request started at mount rejected with an Error, which is shown
C16_Witness ==
    /\ hook = "useAsyncData"
    /\ last = "catch"
    /\ Len(reqs) = 1
    /\ ~state.loading
    /\ state.data = Undef
    /\ state.error = Err("fail")

\* C17: a change of deps to values for which a request is made aborts the
\* signal of the previous request, starts exactly one request with the new
\* deps and shows loading=true with data and error undefined; the callback of
\* that request, once it resolved, is ready and makes data its result.  A
\* re-render with equal deps starts no request and leaves the state alone.
C17_DepsChangeReloads ==
    /\ [][\A d \in DepValues :
            (hook = "useAsyncData" /\ DepsChange(d) /\ (shouldRequest = "none" \/ d >= 2))
            => /\ \A k \in Started : reqs[k].promise = "pending" => reqs'[k].aborted
               /\ Len(reqs') = Len(reqs) + 1
               /\ call' = Call(Undef, d)
               /\ cleanup' = Len(reqs') /\ ~reqs'[Len(reqs')].aborted
               /\ state'.loading /\ state'.data = Undef /\ state'.error = Undef]_vars
    /\ [](\A k \in Started :
            (hook = "useAsyncData" /\ phase = "mounted" /\ Current(k)
             /\ reqs[k].promise = "resolved")
            => ENABLED (ThenCallback(k) /\ state'.data = reqs[k].value))
    /\ [][(hook = "useAsyncData" /\ RenderSameDeps)
            => UNCHANGED <<state, reqs, cleanup, call>>]_vars

\* the second request, started by a change of deps, has delivered its result
C17_Witness ==
    /\ hook = "useAsyncData"
    /\ last = "then"
    /\ Len(reqs) = 2
    /\ call.fn = deps
    /\ cleanup = 2
    /\ ~state.loading
    /\ state.data = Str("ok")

\* C18: when shouldRequest(...deps) returns false, at mount or after a change
\* of deps, no request is started and loading, data and error keep their
\* values: data loaded by an earlier request is retained with loading false.
C18_NoRequestKeepsState ==
    [][\A d \in DepValues :
        (hook = "useAsyncData" /\ shouldRequest = "ge2"
         /\ \/ Mount /\ d = deps /\ d < 2
            \/ DepsChange(d) /\ d < 2)
        => /\ Len(reqs') = Len(reqs)
           /\ state'.loading = state.loading
           /\ state'.data = state.data
           /\ state'.error = state.error
           /\ (state.data # Undef => ~state'.loading)]_vars

\* deps changed to values shouldRequest refuses; the loaded data is still shown
C18_Witness ==
    /\ hook = "useAsyncData"
    /\ shouldRequest = "ge2"
    /\ last = "deps"
    /\ deps = 1
    /\ Len(reqs) = 1
    /\ ~state.loading
    /\ state.data = Str("ok")

\* the data after the calls of set, in the order of the calls
RECURSIVE DataAfter(_, _)
DataAfter(d, args) ==
    IF args = <<>> THEN d
    ELSE DataAfter(IF Head(args).fn = "none" THEN Head(args).v
                   ELSE Apply(Head(args).fn, d), Tail(args))

\* C19: set(v) yields data=v, loading=false, error=undefined; set(f) yields
\* data=f(d), d being the data when the update is applied, so that several
\* set(f) calls made before a re-render compose in the order of the calls.
C19_SetComposes ==
    [][\A args \in SetCalls :
        (hook = "useAsyncData" /\ Set(args))
        => /\ state'.data = DataAfter(state.data, args)
           /\ ~state'.loading
           /\ state'.error = Undef]_vars

\* two updaters applied in one batch to undefined data: swap(next(undefined))
C19_Witness ==
    /\ hook = "useAsyncData"
    /\ last = "sets"
    /\ state.data = Str("new")
    /\ ~state.loading
    /\ state.error = Undef

(* ---------- useStorageState ---------- *)

\* C20 as claimed: with deepCompare off, after setState(v) the state is v, the
\* configured storage holds JSON.stringify(v) under the current key, no other
\* key or storage is modified, and a hook freshly mounted with the same key
\* and storage starts with a state equal to v.  Violated: a value JSON does
\* not represent (NaN, a member that is undefined) is not read back.
C20_SetStateRoundTrip ==
    [][\A arg \in StorageArgs :
        (~props.deepCompare /\ CallStorageSetState(arg))
        => /\ storageState'.state = NewState(arg, storageState.state)
           /\ stores'[props.storage][props.key]
                = Item(Stringify(NewState(arg, storageState.state)))
           /\ \A b \in Storages, k \in Keys :
                <<b, k>> # <<props.storage, props.key>> => stores'[b][k] = stores[b][k]
           /\ StorageMount(stores', props).state = NewState(arg, storageState.state)]_vars

\* C20 amended: the same, the fresh mount starting with the value of the JSON
\* text of v, JSON.parse(JSON.stringify(v)), which is v for the values JSON
\* represents.
C20_SetStateRoundTripJSON ==
    [][\A arg \in StorageArgs :
        (~props.deepCompare /\ CallStorageSetState(arg))
        => LET v == NewState(arg, storageState.state)
           IN /\ storageState'.state = v
              /\ stores'[props.storage][props.key] = Item(Stringify(v))
              /\ \A b \in Storages, k \in Keys :
                   <<b, k>> # <<props.storage, props.key>> => stores'[b][k] = stores[b][k]
              /\ Parse(Stringify(v)).ok
              /\ StorageMount(stores', props).state = Parse(Stringify(v)).value]_vars

\* {foo: "baz"} was set over other initials and the component created anew
C20_Witness ==
    /\ ~props.deepCompare
    /\ stored = "setState, mount"
    /\ storageState.state = FooBaz
    /\ stores[props.storage][props.key] = Item(Stringify(FooBaz))
    /\ \E b \in Storages, k \in Keys : stores[b][k] = Item("{oops")

\* C21: when useStorageState is created its state is the value of the text
\* stored under the key if that text parses as JSON, and the initials if
\* nothing is stored or the text does not parse; a text that fails to parse
\* is logged; creating the hook leaves the storage unchanged.
C21_InitFromStorage ==
    /\ [](stored \in {"mount", "setState, mount"} =>
            LET item == stores[props.storage][props.key]
            IN /\ (item.has /\ item.text \in {"null", "{\"foo\":\"bar\"}", "{\"foo\":\"baz\"}"})
                    => /\ storageState.state = Parse(item.text).value
                       /\ logged = ""
               /\ ~item.has => (storageState.state = initials /\ logged = "")
               /\ (item.has /\ item.text = "{oops")
                    => (storageState.state = initials /\ logged = "{oops")
               /\ (item.has /\ item.text = "") => storageState.state = initials)
    /\ [][Remount => stores' = stores]_vars

\* the hook was created over a text that does not parse
C21_Witness ==
    /\ stored = "mount"
    /\ stores[props.storage][props.key] = Item("{oops")
    /\ storageState.state = initials
    /\ logged = "{oops"

\* the value of the text stored under key k of storage b, the initials if
\* there is no text or it does not parse
ValueStored(ss, b, k) ==
    IF ss[b][k].has /\ Parse(ss[b][k].text).ok
    THEN Parse(ss[b][k].text).value
    ELSE initials

\* C22: when the key of useStorageState changes, the state becomes the value
\* stored under the new key, or the initials when none is stored, and the
\* storage is not written; a setState writes under the current key only, so
\* that changing the key back restores the value last stored under it.
C22_KeyChangeSwitchesEntry ==
    /\ [][\A k \in Keys :
            (k # props.key /\ PropsChange(k, props.storage))
            => /\ storageState'.state = ValueStored(stores, props.storage, k)
               /\ stores' = stores]_vars
    /\ [][\A arg \in StorageArgs :
            CallStorageSetState(arg)
            => \A b \in Storages, k \in Keys :
                 k # props.key => stores'[b][k] = stores[b][k]]_vars

\* both keys were written by setState and the key was changed to the one
\* holding null, which is the state again
C22_Witness ==
    /\ stored = "props"
    /\ \E k \in Keys :
         /\ k # props.key
         /\ stores[props.storage][k] = Item("{\"foo\":\"bar\"}")
    /\ stores[props.storage][props.key] = Item("null")
    /\ storageState.state = Null

\* C23: with deepCompare on, a setState(v) of useStorageState or useUrlState
\* with v deeply equal to the state changes nothing: the state object is the
\* same and neither the storage nor the URL is written; with deepCompare off
\* the same call replaces the state object.
C23_DeepEqualIsNoop ==
    /\ [][\A arg \in StorageArgs :
            (CallStorageSetState(arg) /\ NewState(arg, storageState.state) = storageState.state)
            => IF props.deepCompare
               THEN storageState' = storageState /\ stores' = stores
               ELSE /\ storageState'.id # storageState.id
                    /\ storageState'.state = storageState.state]_vars
    /\ [][\A arg \in UrlArgs :
            (CallUrlSetState(arg) /\ UrlNewState(arg, urlState.state) = urlState.state)
            => IF urlProps.deepCompare
               THEN urlState' = urlState /\ browser' = browser
               ELSE /\ urlState'.id # urlState.id
                    /\ urlState'.state = urlState.state]_vars

\* setState was called with the initials on a freshly created hook with
\* deepCompare on: nothing is stored under its key
C23_Witness ==
    /\ stored = "setState"
    /\ props.deepCompare
    /\ storageState.state = initials
    /\ storageState.id = 0
    /\ \A b \in Storages, k \in Keys : stores[b][k] = NoItem

(* ---------- useUrlState ---------- *)

\* C24 as claimed: when useUrlState is mounted its state is the decoded query
\* if the URL has one, and a copy of the initials otherwise, with the hash of
\* the URL, if any, under '#'; and after the mount effect the query of the
\* URL encodes the state.  Violated: the [location.search] effect of the
\* mount decodes the query the mount effect has just written.
C24_MountTakesQueryOrInitials ==
    [][UrlMount
        => /\ urlState'.state.foo
                = IF Location(browser).search # NoQuery
                  THEN DecodeQueryString(Location(browser).search, urlProps.noCoerce).foo
                  ELSE JsonCopy(urlProps.initials).foo
           /\ Location(browser).hash # "" => urlState'.state.hash = Location(browser).hash
           /\ Location(browser').search = EncodeQueryString(urlState'.state)]_vars

\* C25: setState(s) of useUrlState makes s the state and rewrites the query,
\* and the hash from s['#'], of the current history entry in place: the
\* pathname, the other entries, the length of the session history and the
\* current position do not change.
C25_SetStateRewritesInPlace ==
    [][\A arg \in UrlArgs :
        CallUrlSetState(arg)
        => LET s == UrlNewState(arg, urlState.state)
           IN /\ urlState'.state = s
              /\ ~(urlProps.deepCompare /\ s = urlState.state)
                   => /\ Location(browser').search = EncodeQueryString(s)
                      /\ Location(browser').hash = s.hash
              /\ Location(browser').pathname = Location(browser).pathname
              /\ Len(browser'.entries) = Len(browser.entries)
              /\ browser'.index = browser.index
              /\ \A i \in 1..Len(browser.entries) :
                   i # browser.index => browser'.entries[i] = browser.entries[i]]_vars

\* setState({foo: "bar", '#': "hash"}) on the first of two entries
C25_Witness ==
    /\ visited = "setState"
    /\ Len(browser.entries) = 2
    /\ browser.index = 1
    /\ browser.entries[2] = Home
    /\ Location(browser) = Entry("/about", Pair("bar"), "hash", Null)
    /\ urlState.state = [foo |-> Str("bar"), hash |-> "hash"]

ReadsLikeOtherType(x) == x.t = "string" /\ ToClosestType(x.v) # x

C27_ReplaceKeepsStack ==
    /\ [][\A to \in Tos, st \in OptionStates :
            CallReplace(to, st, FALSE)
            => /\ Len(browser'.entries) = Len(browser.entries)
               /\ browser'.index = browser.index
               /\ router'.state = (IF st = Undef THEN Null ELSE st)]_vars
    /\ [][\A to \in Tos, st \in OptionStates :
            CallPush(to, st)
            => /\ browser'.index = browser.index + 1
               /\ Len(browser'.entries) = browser'.index
               /\ \A i \in 1..browser.index : browser'.entries[i] = browser.entries[i]]_vars

\* C28: replace(to, {silent: true}) changes the URL of the current history
\* entry and nothing else: the location of the router, with its state and
\* key, is the same, so that no page is mounted again, and no entry is added.
C28_SilentReplaceKeepsRouter ==
    [][\A to \in Tos, st \in OptionStates :
        CallReplace(to, st, TRUE)
        => /\ router' = router
           /\ Len(browser'.entries) = Len(browser.entries)
           /\ browser'.index = browser.index
           /\ \A i \in 1..Len(browser.entries) :
                i # browser.index => browser'.entries[i] = browser.entries[i]
           /\ Location(browser').search = to.search
           /\ to.kind \in {"path", "URL"} => Location(browser').pathname = to.pathname
           /\ to.kind \in {"query", "URLSearchParams"}
                => /\ Location(browser').pathname = Location(browser).pathname
                   /\ Location(browser').hash = Location(browser).hash]_vars

\* after replace("/", {state}) a silent replace("/about", {state: ...})
C28_Witness ==
    /\ routed = [name |-> "replace", kind |-> "path", silent |-> TRUE]
    /\ router.pathname = "/"
    /\ router.state = Str("{foo:'bar'}")
    /\ router.key = 1
    /\ Location(browser).pathname = "/about"

(* ---------- useDebouncedCallback ---------- *)

\* the last of the calls an invocation answers
LastCall(k) == CHOOSE i \in invocations[k].waiting :
                   \A j \in invocations[k].waiting : j <= i

\* every promise settled has the result of the invocation that took its call,
\* and a call made after an invocation is taken by a later one
SettledByOwnInvocation ==
    \A i \in 1..Len(tasks) :
        /\ tasks[i].resolved
            => /\ tasks[i].inv # 0
               /\ invocations[tasks[i].inv].settled
               /\ tasks[i].result = Callback(invocations[tasks[i].inv].data,
                                             invocations[tasks[i].inv].deps)
        /\ tasks[i].inv # 0 => tasks[i].inv > tasks[i].seq

\* an invocation has the data of the last call it answers and is not made
\* before `delay` has passed since that call
InvokedAfterDelay ==
    \A k \in 1..Len(invocations) :
        /\ invocations[k].waiting # {}
        /\ invocations[k].data = tasks[LastCall(k)].data
        /\ invocations[k].at >= tasks[LastCall(k)].at + Delay

\* C29 as claimed: calls that each follow the previous one by less than
\* `delay` are answered by one invocation, which has the data of the last
\* call and the deps current when it is made, and is not made before `delay`
\* after that call; every promise has that invocation's result; a call after
\* the invocation is answered by another one.  Violated when the deps change
\* between two calls or between the last call and the invocation.
C29_BurstInvokesOnce ==
    /\ \A i \in 1..(Len(tasks) - 1) :
           (tasks[i + 1].at - tasks[i].at < Delay /\ tasks[i].inv # 0)
           => tasks[i + 1].inv = tasks[i].inv
    /\ \A k \in 1..Len(invocations) : invocations[k].deps = invocations[k].current
    /\ InvokedAfterDelay
    /\ SettledByOwnInvocation

\* C29, amended: the calls are those of one returned function, that is with
\* no change of the deps between them, and the deps of the invocation are
\* those of the render that returned the function.
C29_BurstInvokesOncePerFunction ==
    /\ \A i \in 1..(Len(tasks) - 1) :
           (/\ tasks[i + 1].at - tasks[i].at < Delay
            /\ tasks[i + 1].fn = tasks[i].fn
            /\ tasks[i].inv # 0)
           => tasks[i + 1].inv = tasks[i].inv
    /\ \A k \in 1..Len(invocations) :
           \A i \in invocations[k].waiting : invocations[k].deps = tasks[i].deps
    /\ InvokedAfterDelay
    /\ SettledByOwnInvocation

\* two calls one tick apart answered by one invocation, a third call made
\* after it answered by a second, all three promises settled
C29_Witness ==
    /\ Len(tasks) = 3
    /\ tasks[2].at = tasks[1].at + 1
    /\ tasks[1].data # tasks[2].data
    /\ tasks[1].inv = 1
    /\ tasks[2].inv = 1
    /\ tasks[3].inv = 2
    /\ \A i \in 1..3 : tasks[i].resolved
    /\ tasks[1].result = Callback(tasks[2].data, tasks[2].deps)

(* ---------- usePropState ---------- *)

\* C30: after setState(v) the state is v, a render with the same prop leaves
\* the state as it is, and a render with another prop p makes the state p.
C30_PropOverridesLocalState ==
    /\ [][\A v \in PropValues : CallPropSetState(v) => propState' = v]_vars
    /\ [][\A p \in PropValues :
            PropRerender(p) => propState' = (IF p = prop THEN propState ELSE p)]_vars

\* a local value kept by a render with the same prop
C30_Witness ==
    /\ propOp.name = "rerender"
    /\ propOp.arg = prop
    /\ propState # prop
    /\ renders = 3

(* ---------- useAsyncData: races and failures ---------- *)

\* C31 as claimed: when the promise of the current request resolved with v
\* before abort() was called (no abort at all, or, for an operation that
\* observes its signal, an abort that found the promise resolved), the then
\* callback makes the state loading = false, data = v, error = undefined.
\* Violated: the callback returns when it finds signal.aborted.
C31_ResolutionBeatsAbort ==
    [][\A k \in 1..MaxReqs :
        (/\ ThenCallback(k)
         /\ hook = "useAsyncData"
         /\ cleanup = k
         /\ ~reqs[k].aborted \/ observes)
        => /\ ~state'.loading
           /\ state'.data = reqs[k].value
           /\ state'.error = Undef]_vars

\* C32 as claimed: the value the operation rejects with is stored in `error`
\* as it is, whatever it is.  Violated for values that are no Error.
C32_ErrorVerbatim ==
    [][\A k \in 1..MaxReqs :
        (CatchCallback(k) /\ hook = "useAsyncData")
        => state'.error = reqs[k].value]_vars

\* C32, amended: an Error is stored as it is; any other value e is stored as
\* an Error whose message is String(e).
C32_ErrorVerbatimOrWrapped ==
    [][\A k \in 1..MaxReqs :
        (CatchCallback(k) /\ hook = "useAsyncData")
        => /\ IsError(state'.error)
           /\ IsError(reqs[k].value) => state'.error = reqs[k].value
           /\ ~IsError(reqs[k].value) => state'.error.v = String(reqs[k].value)
           /\ ~state'.loading
           /\ state'.data = Undef]_vars

\* the operation rejected with the string it was aborted with
C32_Witness ==
    /\ hook = "useAsyncData"
    /\ last = "catch"
    /\ state.error = Err("stop")
    /\ ~state.loading

\* C36 as claimed: once a change of the deps has started a new request, the
\* callbacks of the request it replaced leave the state as it is.  Violated:
\* the catch callback stores the failure of the replaced request.
C36_SupersededIsSilent ==
    [][\A k \in 1..MaxReqs :
        (/\ ThenCallback(k) \/ CatchCallback(k)
         /\ hook = "useAsyncData"
         /\ cleanup # 0
         /\ k < cleanup)
        => state' = state]_vars

\* C38 as claimed: loading is not left true by a current request whose
\* promise has settled and whose callback has run.  Violated: after abort()
\* the then callback of an operation that resolves returns without an update.
C38_LoadingEnds ==
    (/\ hook = "useAsyncData"
     /\ phase = "mounted"
     /\ cleanup # 0
     /\ state.loading)
    => reqs[cleanup].promise # "handled"

(* ---------- useRevertibleState: updater functions, inverses, batches ---------- *)

\* the hook as a render leaves it: the cursor in the history, on the state
WellFormed(r) ==
    /\ 0 <= r.index
    /\ r.index < Len(r.history)
    /\ At(r.history, r.index) = r.state

\* C33 as claimed: setState(f) with a function f records and shows f(c), c
\* being the value current when the call is made, also when an undo() or
\* another setState was called from the same render just before.  Violated:
\* f is given the state of the render.
C33_UpdaterSeesCurrent ==
    /\ [][(CallSetState([fn |-> TRUE, v |-> ""]) /\ WellFormed(rev))
            => /\ rev'.state = Updater(At(rev.history, rev.index))
               /\ rev'.history[Len(rev'.history)] = rev'.state]_vars
    /\ [][\A a \in Calls :
            (CallPair(a, [name |-> "setState", arg |-> [fn |-> TRUE, v |-> ""]])
             /\ WellFormed(rev))
            => /\ rev'.state = Updater(Do(a, rev, rev).state)
               /\ rev'.history[Len(rev'.history)] = rev'.state]_vars

\* C34: undo() and redo() leave the history entries as they are; redo()
\* after an undo() that moved, and undo() after a redo() that moved, give
\* back the same history, cursor and state.
C34_UndoRedoInverse ==
    /\ [][CallUndo
            => /\ rev'.history = rev.history
               /\ rev.index > 0 => /\ Redo(rev', rev') = rev
                                   /\ Redo(rev, rev') = rev]_vars
    /\ [][CallRedo
            => /\ rev'.history = rev.history
               /\ rev.index < Len(rev.history) - 1
                    => /\ Undo(rev', rev') = rev
                       /\ Undo(rev, rev') = rev]_vars

\* a redo() that moved from the first to the second of three entries
C34_Witness ==
    /\ op.name = "redo"
    /\ op.index = 0
    /\ op.len = 3
    /\ rev.index = 1
    /\ Undo(rev, rev).index = 0

\* C35 as claimed: two calls made from one render, two setState or a
\* setState with an undo() or a redo(), leave the cursor in the history and
\* on the state, and every value pushed is in the history.  Violated: the
\* second setState appends to the history of the render.
C35_BatchTakesEffect ==
    [][\A a \in Calls, b \in Calls :
        (/\ CallPair(a, b)
         /\ WellFormed(rev)
         /\ a.name = "setState" \/ b.name = "setState")
        => /\ WellFormed(rev')
           /\ a.name = "setState"
                => \E i \in DOMAIN rev'.history :
                      rev'.history[i] = Do(a, rev, rev).state
           /\ b.name = "setState"
                => \E i \in DOMAIN rev'.history : rev'.history[i] = rev'.state]_vars

(* ---------- useSubmit: discarded requests, state invariant ---------- *)

\* C37 as claimed: after a change of the deps has reset the hook (it is Idle
\* and `data` is undefined), the callbacks of the request that was discarded
\* leave the state as it is.  Violated: they store its outcome and set done.
C37_DiscardedIsSilent ==
    [][\A k \in 1..MaxReqs :
        (/\ ThenCallback(k) \/ CatchCallback(k)
         /\ hook = "useSubmit"
         /\ data = Undef
         /\ SubmitIdle(state))
        => state' = state]_vars

\* C40: in useSubmit pending and done are never both true, and while pending
\* is true result and error are undefined.
C40_PendingExcludesDone ==
    hook = "useSubmit" =>
        /\ ~(state.pending /\ state.done)
        /\ state.pending => (state.result = Undef /\ state.error = Undef)

\* a second request is pending while the rejection of the first, aborted by
\* a change of the deps, waits for its callback
C40_Witness ==
    /\ hook = "useSubmit"
    /\ state.pending
    /\ Len(reqs) = 2
    /\ reqs[1].promise = "rejected"
    /\ reqs[1].aborted
    /\ reqs[2].promise = "pending"

(* ---------- useStorageState: change of the storage ---------- *)

\* C39 as claimed: whenever the storage option changes and the key does not,
\* the state becomes the value stored under the key in the storage now
\* selected, or the initials when none is stored.  Violated when the hook
\* comes back to the storage it was created with.
C39_StorageChangeReinitialises ==
    [][\A b \in Storages :
        (b # props.storage /\ PropsChange(props.key, b))
        => /\ storageState'.state = ValueStored(stores, b, props.key)
           /\ stores' = stores]_vars

====
